---------------------------- MODULE Spec2Model ----------------------------
(***************************************************************************)
(* Job-card financial recalculation and inventory adjustment of the garage *)
(* back office (jobcards/models.py, jobcards/serializers.py,               *)
(* jobcards/signals.py, jobcards/views.py, inventory/models.py).           *)
(*                                                                         *)
(* Money is held in cents (DecimalField, decimal_places=2), line-item      *)
(* quantities in hundredths (DecimalField, decimal_places=2) and stock in  *)
(* whole units (IntegerField).                                             *)
(***************************************************************************)
EXTENDS Integers, Sequences, FiniteSets

VARIABLES
    jobCards,    \* JobCard table: id -> row, or NoRow
    lineItems,   \* LineItem table: job-card id -> its rows in pk order
    payments,    \* Payment table: job-card id -> its rows in pk order
    stock,       \* InventoryPart table: sku -> stock_qty
    nextJobId,   \* autoincrement sequence of the JobCard table
    last,        \* the last request: operation, HTTP status, had a bad price,
                 \* index of the line item whose write failed (0: none)
    trip,        \* history of the last steps: a create-then-delete of one
                 \* line item, the status a status update replaced, or the
                 \* row a first of two recomputations persisted
    proc,        \* requests in progress: process -> its position and locals
    issued       \* history: the numbers of the job_numbers assigned so far

vars == <<jobCards, lineItems, payments, stock, nextJobId, last, trip, proc,
          issued>>
db == <<jobCards, lineItems, payments, stock, nextJobId>>

--------------------------------------------------------------------------
(* Bounds of the model *)

MaxJobCards == 2
MaxLineItems == 2
MaxPayments == 2
MaxStock == 2

--------------------------------------------------------------------------
(* Program constants and field types *)

\* clients/models.py: the VAT rate of client billing
DEFAULT_VAT_RATE == 18
TAX_RATE == 15

STATUS_CHOICES ==
    {"DRAFT", "OPEN", "INSPECT", "PENDING_APPROVAL", "CLOSED", "PAID", "CANCELED"}

TYPE_CHOICES == {"PART", "LABOR", "FEE"}

NoRow == [exists |-> FALSE]
NoSku == ""

JobIds == 1..MaxJobCards

\* The InventoryPart rows: one part; "NOPART" is a sku no part has.
PartSkus == {"OIL123"}

--------------------------------------------------------------------------
(* Decimal and integer conversions done when a field is written *)

\* format_number(): quantize to the column's decimal places under the
\* default context, ROUND_HALF_EVEN. n / d rounded to an integer.
RoundHalfEven(n, d) ==
    LET f == n \div d
        r == n % d
    IN  IF 2 * r < d THEN f
        ELSE IF 2 * r > d THEN f + 1
        ELSE IF f % 2 = 0 THEN f ELSE f + 1

\* IntegerField.get_prep_value(): int(value), truncation toward zero.
\* h is a value in hundredths.
IntOfDecimal(h) == IF h >= 0 THEN h \div 100 ELSE -((-h) \div 100)

Abs(n) == IF n < 0 THEN -n ELSE n

RECURSIVE SumSeq(_)
SumSeq(s) == IF s = <<>> THEN 0 ELSE Head(s) + SumSeq(Tail(s))

SeqsUpTo(S, n) == UNION {[1..k -> S] : k \in 0..n}

--------------------------------------------------------------------------
(* LineItem *)

\* LineItem.save(): line_total = quantity * unit_price, stored with 2
\* decimals. quantity (hundredths) * unit_price (cents) is in 1/10000.
LineTotal(quantity, unit_price) == RoundHalfEven(quantity * unit_price, 100)

\* Variant of LineItemRow that stores the line_total of the payload
LineItemRowTrusting(item) ==
    [item_type |-> item.item_type, sku |-> item.sku,
     quantity |-> item.quantity, unit_price |-> item.unit_price,
     line_total |-> IF "line_total" \in DOMAIN item THEN item.line_total
                    ELSE LineTotal(item.quantity, item.unit_price)]

\* The row of a line item: the writable fields of the payload (line_total
\* is read-only in LineItemSerializer), line_total set by LineItem.save()
LineItemRow(item) ==
    [item_type |-> item.item_type, sku |-> item.sku,
     quantity |-> item.quantity, unit_price |-> item.unit_price,
     line_total |-> LineTotal(item.quantity, item.unit_price)]

\* Variant of Validate with "< 0" for "<= 0"
ValidateAcceptsZero(item) ==
    ~(item.item_type \in TYPE_CHOICES
      /\ ("unit_price" \notin DOMAIN item \/ item.unit_price < 0))

\* LineItemSerializer.validate()
\* data.get('unit_price') is None when the payload has no unit_price.
Validate(item) ==
    ~(item.item_type \in TYPE_CHOICES
      /\ ("unit_price" \notin DOMAIN item \/ item.unit_price <= 0))

\* The request carries a line item with unit_price missing, zero or negative
HasBadPrice(items) ==
    \E i \in 1..Len(items) :
        \/ "unit_price" \notin DOMAIN items[i]
        \/ items[i].unit_price < 1

ValidateAll(items) == \A i \in 1..Len(items) : Validate(items[i])

--------------------------------------------------------------------------
(* Stock synchronization (post_save / post_delete receivers of LineItem) *)

\* Variant of Touches without the test of item_type
TouchesAnyType(row, sku) == row.sku # NoSku /\ row.sku = sku

\* if instance.item_type == 'PART' and instance.sku, then
\* InventoryPart.objects.get(sku=instance.sku)
Touches(row, sku) == row.item_type = "PART" /\ row.sku # NoSku /\ row.sku = sku

\* Variant of OnCreate that adjusts the stock without matching the sku
OnCreateAnyPart(st, row) ==
    [s \in DOMAIN st |->
        IF row.item_type = "PART" /\ row.sku # NoSku
        THEN LET v == st[s] * 100 - row.quantity
             IN  IntOfDecimal(IF v < 0 THEN 0 ELSE v)
        ELSE st[s]]

\* update_inventory_on_lineitem_save, created=True: the new stock_qty of
\* every part after LineItem `row` was inserted. part.stock_qty becomes a
\* Decimal, is clamped at 0 and is stored through IntegerField.
OnCreate(st, row) ==
    [s \in DOMAIN st |->
        IF Touches(row, s)
        THEN LET v == st[s] * 100 - row.quantity
             IN  IntOfDecimal(IF v < 0 THEN 0 ELSE v)
        ELSE st[s]]

\* update_inventory_on_lineitem_save, created=False: old_quantity is read
\* back from the table after the row was written, so it is the quantity
\* just saved (persisted) and diff = persisted - instance.quantity.
OnUpdate(st, persisted, row) ==
    [s \in DOMAIN st |->
        IF Touches(row, s)
        THEN LET diff == persisted.quantity - row.quantity
                 v == st[s] * 100 + diff
             IN  IntOfDecimal(IF v < 0 THEN 0 ELSE v)
        ELSE st[s]]

\* restore_inventory_on_lineitem_delete
OnDelete(st, row) ==
    [s \in DOMAIN st |->
        IF Touches(row, s)
        THEN IntOfDecimal(st[s] * 100 + row.quantity)
        ELSE st[s]]

\* LineItem.objects.create() for each item of the request, in order
RECURSIVE CreateAll(_, _)
CreateAll(st, rows) ==
    IF rows = <<>> THEN st ELSE CreateAll(OnCreate(st, Head(rows)), Tail(rows))

\* QuerySet.delete(): the collector deletes the rows, then sends
\* post_delete for each in pk order
RECURSIVE DeleteAll(_, _)
DeleteAll(st, rows) ==
    IF rows = <<>> THEN st ELSE DeleteAll(OnDelete(st, Head(rows)), Tail(rows))

--------------------------------------------------------------------------
(* JobCard *)

SelectTotals(rows, types) ==
    SumSeq([i \in 1..Len(rows) |->
              IF rows[i].item_type \in types THEN rows[i].line_total ELSE 0])

SumAmounts(pays) == SumSeq([i \in 1..Len(pays) |-> pays[i].amount])

\* Variant of recalculate_totals that leaves the FEE lines out
RecalculateNoFees(card, rows, pays) ==
    LET parts == SelectTotals(rows, {"PART"})
        labor == SelectTotals(rows, {"LABOR"})
        subtotal == parts + labor
    IN  [card EXCEPT
            !.parts_subtotal = parts,
            !.labor_subtotal = labor,
            !.tax_amount = RoundHalfEven(subtotal * TAX_RATE, 100),
            !.total_due = RoundHalfEven(subtotal * 100 + subtotal * TAX_RATE, 100),
            !.total_paid = SumAmounts(pays)]

\* Variant of recalculate_totals that adds to the stored subtotals
RecalculateAccumulating(card, rows, pays) ==
    LET parts == card.parts_subtotal + SelectTotals(rows, {"PART"})
        labor == card.labor_subtotal + SelectTotals(rows, {"LABOR", "FEE"})
        subtotal == parts + labor
    IN  [card EXCEPT
            !.parts_subtotal = parts,
            !.labor_subtotal = labor,
            !.tax_amount = RoundHalfEven(subtotal * TAX_RATE, 100),
            !.total_due = RoundHalfEven(subtotal * 100 + subtotal * TAX_RATE, 100),
            !.total_paid = SumAmounts(pays)]

\* JobCard.recalculate_totals() followed by JobCard.save(): the row as
\* persisted, every amount quantized to 2 decimals.
recalculate_totals(card, rows, pays) ==
    LET parts == SelectTotals(rows, {"PART"})
        labor == SelectTotals(rows, {"LABOR"}) + SelectTotals(rows, {"FEE"})
        subtotal == parts + labor
    IN  [card EXCEPT
            !.parts_subtotal = parts,
            !.labor_subtotal = labor,
            !.tax_amount = RoundHalfEven(subtotal * TAX_RATE, 100),
            !.total_due = RoundHalfEven(subtotal * 100 + subtotal * TAX_RATE, 100),
            !.total_paid = SumAmounts(pays)]

\* JobCard.balance_due (property, never stored)
balance_due(card) == card.total_due - card.total_paid

Exists(j) == jobCards[j].exists

\* JobCard.save() on a row without job_number: the id of the last existing
\* job card + 1
LastJobId ==
    IF \E j \in JobIds : Exists(j)
    THEN CHOOSE j \in JobIds : Exists(j) /\ \A k \in JobIds : Exists(k) => k <= j
    ELSE 0

\* The decimal digits of a natural number, most significant first
RECURSIVE Digits(_)
Digits(n) == IF n < 10 THEN <<n>> ELSE Append(Digits(n \div 10), n % 10)

ZeroPad(ds, width) == [i \in 1..(width - Len(ds)) |-> 0] \o ds

\* f'J{new_id:06d}'
JobNumber(new_id) == [prefix |-> "J", digits |-> ZeroPad(Digits(new_id), 6)]

\* The number a sequence of decimal digits writes
RECURSIVE DigitsValue(_)
DigitsValue(ds) ==
    IF ds = <<>> THEN 0
    ELSE 10 * DigitsValue(SubSeq(ds, 1, Len(ds) - 1)) + ds[Len(ds)]

\* The empty job_number of a row never saved
NoJobNumber == [prefix |-> "", digits |-> <<>>]

\* The field defaults of a JobCard row
NewJobCard0 ==
    [exists |-> TRUE, job_number |-> NoJobNumber, status |-> "DRAFT",
     parts_subtotal |-> 0, labor_subtotal |-> 0, tax_amount |-> 0,
     total_due |-> 0, total_paid |-> 0]

\* Variant of JobCardSave that numbers the row at every save
JobCardSaveAlways(card, last_id) ==
    [card EXCEPT !.job_number = JobNumber(last_id + 1)]

\* JobCard.save(): a row without job_number gets one from last_id, the id
\* of the last job card the query found (0 when none)
JobCardSave(card, last_id) ==
    IF card.job_number = NoJobNumber
    THEN [card EXCEPT !.job_number = JobNumber(last_id + 1)]
    ELSE card

\* JobCard.objects.create(): the defaults, saved
NewJobCard == JobCardSave(NewJobCard0, LastJobId)

TotalLineItems == SumSeq([j \in JobIds |-> Len(lineItems[j])])
TotalPayments == SumSeq([j \in JobIds |-> Len(payments[j])])

--------------------------------------------------------------------------
(* Writes that fail, and the transaction around a job-card mutation *)

\* format_number() of line_total (max_digits=10, decimal_places=2) raises
\* InvalidOperation when quantity * unit_price has more than 8 integer
\* digits. Computed on the whole units of the two factors, which is exact
\* for the line items of this model (whole numbers, or a product below 1).
Overflows(item) ==
    (Abs(item.quantity) \div 100) * (Abs(item.unit_price) \div 100) >= 10^8

\* The index of the first line item of the request whose INSERT raises,
\* 0 when every line item can be written
FailsAt(items) ==
    IF \E i \in 1..Len(items) : Overflows(items[i])
    THEN CHOOSE i \in 1..Len(items) :
            /\ Overflows(items[i])
            /\ \A k \in 1..(i - 1) : ~Overflows(items[k])
    ELSE 0

\* Variant of transaction_atomic that keeps what was written before the
\* exception
Autocommit(before, after, raised) == after

\* with transaction.atomic(): `after` is the value a table has when the
\* block exits; an exception restores the value at entry
transaction_atomic(before, after, raised) == IF raised THEN before ELSE after

--------------------------------------------------------------------------
(* Request payloads *)

\* Line items the serializer accepts
PartItems ==
    [item_type : {"PART"}, sku : {"OIL123"}, quantity : {-100, 100},
     unit_price : {10}]
    \cup [item_type : {"PART"}, sku : {"NOPART"}, quantity : {100},
          unit_price : {10}]

ServiceItems ==
    [item_type : {"LABOR", "FEE"}, sku : {NoSku}, quantity : {50},
     unit_price : {5}]

\* Line items with unit_price zero, negative or missing
BadItems ==
    [item_type : {"LABOR"}, sku : {NoSku}, quantity : {100},
     unit_price : {0, -5}]
    \cup {[item_type |-> "PART", sku |-> "OIL123", quantity |-> 100]}

Items == PartItems \cup ServiceItems \cup BadItems

ItemLists == SeqsUpTo(Items, MaxLineItems)

\* Line items entered in the job card's admin inline (LineItemInline)
InlineItems ==
    [item_type : {"PART"}, sku : {"OIL123"}, quantity : {-100, 100, 150},
     unit_price : {10}]
    \cup [item_type : {"PART"}, sku : {"NOPART"}, quantity : {100},
          unit_price : {10}]
    \cup [item_type : {"LABOR"}, sku : {NoSku}, quantity : {50},
          unit_price : {5}]

InlineQuantities == {-100, 100, 150}

PaymentAmounts == {-5, 0, 10}

--------------------------------------------------------------------------
(* State *)

\* No request is in progress between two sequential requests
NoProc == <<>>

Idle == [phase |-> "idle", job |-> 0, before |-> [s \in PartSkus |-> 0]]

Init ==
    /\ jobCards = [j \in JobIds |-> NoRow]
    /\ lineItems = [j \in JobIds |-> <<>>]
    /\ payments = [j \in JobIds |-> <<>>]
    /\ stock \in [PartSkus -> 0..MaxStock]
    /\ nextJobId = 1
    /\ last = [op |-> "none", code |-> 0, bad |-> FALSE, failed |-> 0]
    /\ trip = Idle
    /\ proc = NoProc
    /\ issued = {}

StockCapped(st) == \A s \in DOMAIN st : st[s] <= MaxStock

--------------------------------------------------------------------------
(* REST operations *)

\* POST /api/jobcards/ : JobCardSerializer.is_valid() then .create()
CreateJobCard(items) ==
    /\ nextJobId <= MaxJobCards
    /\ trip' = Idle
    /\ UNCHANGED proc
    /\ IF ~ValidateAll(items)
       THEN /\ last' = [op |-> "create", code |-> 400, bad |-> HasBadPrice(items), failed |-> 0]
            /\ UNCHANGED <<db, issued>>
       ELSE LET j == nextJobId
                k == FailsAt(items)
                n == IF k = 0 THEN Len(items) ELSE k - 1
                rows == [i \in 1..n |-> LineItemRow(items[i])]
                card == IF k = 0 THEN recalculate_totals(NewJobCard, rows, <<>>)
                                 ELSE NewJobCard
                st == CreateAll(stock, rows)
            IN  /\ TotalLineItems + Len(rows) <= MaxLineItems
                /\ StockCapped(st)
                /\ jobCards' = transaction_atomic(
                       jobCards, [jobCards EXCEPT ![j] = card], k # 0)
                /\ lineItems' = transaction_atomic(
                       lineItems, [lineItems EXCEPT ![j] = rows], k # 0)
                /\ stock' = transaction_atomic(stock, st, k # 0)
                /\ nextJobId' = transaction_atomic(nextJobId, nextJobId + 1, k # 0)
                /\ UNCHANGED payments
                /\ issued' = IF k = 0
                             THEN issued \cup {DigitsValue(card.job_number.digits)}
                             ELSE issued
                /\ last' = [op |-> "create", code |-> IF k = 0 THEN 201 ELSE 500,
                            bad |-> HasBadPrice(items), failed |-> k]

\* PUT /api/jobcards/{pk}/ : JobCardSerializer.is_valid() then .update()
UpdateJobCard(j, items) ==
    /\ Exists(j)
    /\ trip' = Idle
    /\ UNCHANGED <<proc, issued>>
    /\ IF ~ValidateAll(items)
       THEN /\ last' = [op |-> "update", code |-> 400, bad |-> HasBadPrice(items), failed |-> 0]
            /\ UNCHANGED db
       ELSE LET k == FailsAt(items)
                n == IF k = 0 THEN Len(items) ELSE k - 1
                rows == [i \in 1..n |-> LineItemRow(items[i])]
                instance == JobCardSave(jobCards[j], LastJobId)
                card == IF k = 0 THEN recalculate_totals(instance, rows, payments[j])
                                 ELSE instance
                st == CreateAll(DeleteAll(stock, lineItems[j]), rows)
            IN  /\ TotalLineItems - Len(lineItems[j]) + Len(rows) <= MaxLineItems
                /\ StockCapped(st)
                /\ jobCards' = transaction_atomic(
                       jobCards, [jobCards EXCEPT ![j] = card], k # 0)
                /\ lineItems' = transaction_atomic(
                       lineItems, [lineItems EXCEPT ![j] = rows], k # 0)
                /\ stock' = transaction_atomic(stock, st, k # 0)
                /\ UNCHANGED <<payments, nextJobId>>
                /\ last' = [op |-> "update", code |-> IF k = 0 THEN 200 ELSE 500,
                            bad |-> HasBadPrice(items), failed |-> k]

\* DELETE /api/jobcards/{pk}/ : the line items and payments cascade
DeleteJobCard(j) ==
    /\ Exists(j)
    /\ StockCapped(DeleteAll(stock, lineItems[j]))
    /\ jobCards' = [jobCards EXCEPT ![j] = NoRow]
    /\ lineItems' = [lineItems EXCEPT ![j] = <<>>]
    /\ payments' = [payments EXCEPT ![j] = <<>>]
    /\ stock' = DeleteAll(stock, lineItems[j])
    /\ last' = [op |-> "delete", code |-> 204, bad |-> FALSE, failed |-> 0]
    /\ trip' = Idle
    /\ UNCHANGED <<nextJobId, proc, issued>>

\* Variant of PaymentSave that takes the new payment's amount alone
PaymentSaveLatest(card, pays) ==
    [card EXCEPT !.total_paid = pays[Len(pays)].amount]

\* Variant of PaymentSave that marks a settled job card PAID
PaymentSaveMarksPaid(card, pays) ==
    [card EXCEPT !.total_paid = SumAmounts(pays),
                 !.status = IF card.total_due - SumAmounts(pays) <= 0
                            THEN "PAID" ELSE @]

\* Payment.save() of a new payment: the job card read by the view gets
\* total_paid = the sum of its payments and is saved.
PaymentSave(card, pays) == [card EXCEPT !.total_paid = SumAmounts(pays)]

\* Variant of the payment endpoint that keeps one payment per job card
RecordPaymentReplaces(j, amount) ==
    /\ trip' = Idle
    /\ UNCHANGED <<proc, issued>>
    /\ IF ~Exists(j)
       THEN /\ last' = [op |-> "payment", code |-> 404, bad |-> FALSE, failed |-> 0]
            /\ UNCHANGED db
       ELSE LET pays == <<[amount |-> amount]>>
            IN  /\ TotalPayments < MaxPayments
                /\ payments' = [payments EXCEPT ![j] = pays]
                /\ jobCards' = [jobCards EXCEPT ![j] = PaymentSave(jobCards[j], pays)]
                /\ last' = [op |-> "payment", code |-> 201, bad |-> FALSE, failed |-> 0]
                /\ UNCHANGED <<lineItems, stock, nextJobId>>

\* POST /api/jobcards/{job_card_pk}/payments/ : PaymentViewSet.create()
RecordPayment(j, amount) ==
    /\ trip' = Idle
    /\ UNCHANGED <<proc, issued>>
    /\ IF ~Exists(j)
       THEN /\ last' = [op |-> "payment", code |-> 404, bad |-> FALSE, failed |-> 0]
            /\ UNCHANGED db
       ELSE LET pays == Append(payments[j], [amount |-> amount])
            IN  /\ TotalPayments < MaxPayments
                /\ payments' = [payments EXCEPT ![j] = pays]
                /\ jobCards' = [jobCards EXCEPT ![j] = PaymentSave(jobCards[j], pays)]
                /\ last' = [op |-> "payment", code |-> 201, bad |-> FALSE, failed |-> 0]
                /\ UNCHANGED <<lineItems, stock, nextJobId>>

\* Variant of update_status that refuses to leave PAID or CANCELED
UpdateStatusGuarded(j, new_status) ==
    /\ UNCHANGED <<lineItems, payments, stock, nextJobId, proc, issued>>
    /\ IF ~Exists(j)
       THEN /\ last' = [op |-> "status", code |-> 404, bad |-> FALSE, failed |-> 0]
            /\ trip' = Idle
            /\ UNCHANGED jobCards
       ELSE IF new_status # "" /\ new_status \in STATUS_CHOICES
               /\ jobCards[j].status \notin {"PAID", "CANCELED"}
       THEN /\ jobCards' = [jobCards EXCEPT
                ![j] = JobCardSave([jobCards[j] EXCEPT !.status = new_status],
                                   LastJobId)]
            /\ last' = [op |-> "status", code |-> 200, bad |-> FALSE, failed |-> 0]
            /\ trip' = [phase |-> "status", job |-> j, before |-> jobCards[j].status]
       ELSE /\ last' = [op |-> "status", code |-> 400, bad |-> FALSE, failed |-> 0]
            /\ trip' = Idle
            /\ UNCHANGED jobCards

\* Variant of update_status that saves any status the request carries
UpdateStatusUnchecked(j, new_status) ==
    /\ UNCHANGED <<lineItems, payments, stock, nextJobId, proc, issued>>
    /\ IF ~Exists(j)
       THEN /\ last' = [op |-> "status", code |-> 404, bad |-> FALSE, failed |-> 0]
            /\ trip' = Idle
            /\ UNCHANGED jobCards
       ELSE IF new_status # ""
       THEN /\ jobCards' = [jobCards EXCEPT
                ![j] = JobCardSave([jobCards[j] EXCEPT !.status = new_status],
                                   LastJobId)]
            /\ last' = [op |-> "status", code |-> 200, bad |-> FALSE, failed |-> 0]
            /\ trip' = [phase |-> "status", job |-> j, before |-> jobCards[j].status]
       ELSE /\ last' = [op |-> "status", code |-> 400, bad |-> FALSE, failed |-> 0]
            /\ trip' = Idle
            /\ UNCHANGED jobCards

\* POST /api/jobcards/{pk}/update-status/ : JobCardViewSet.update_status()
\* new_status is "" when the request has no status.
UpdateStatus(j, new_status) ==
    /\ UNCHANGED <<lineItems, payments, stock, nextJobId, proc, issued>>
    /\ IF ~Exists(j)
       THEN /\ last' = [op |-> "status", code |-> 404, bad |-> FALSE, failed |-> 0]
            /\ trip' = Idle
            /\ UNCHANGED jobCards
       ELSE IF new_status # "" /\ new_status \in STATUS_CHOICES
       THEN /\ jobCards' = [jobCards EXCEPT
                ![j] = JobCardSave([jobCards[j] EXCEPT !.status = new_status],
                                   LastJobId)]
            /\ last' = [op |-> "status", code |-> 200, bad |-> FALSE, failed |-> 0]
            /\ trip' = [phase |-> "status", job |-> j, before |-> jobCards[j].status]
       ELSE /\ last' = [op |-> "status", code |-> 400, bad |-> FALSE, failed |-> 0]
            /\ trip' = Idle
            /\ UNCHANGED jobCards

Next ==
    \/ \E items \in ItemLists : CreateJobCard(items)
    \/ \E j \in JobIds, items \in ItemLists : UpdateJobCard(j, items)
    \/ \E j \in JobIds : DeleteJobCard(j)
    \/ \E j \in JobIds, amount \in PaymentAmounts : RecordPayment(j, amount)

Spec == Init /\ [][Next]_vars

--------------------------------------------------------------------------
(* Line items edited one by one (admin inline of the job card): each is  *)
(* LineItem.save() or .delete() with its post_save / post_delete signal. *)

RemoveAt(seq, i) == [k \in 1..(Len(seq) - 1) |-> IF k < i THEN seq[k] ELSE seq[k + 1]]

\* LineItem.objects.create(): save() then post_save(created=True)
LineItemCreate(j, item) ==
    LET row == LineItemRow(item)
    IN  /\ Exists(j)
        /\ TotalLineItems < MaxLineItems
        /\ StockCapped(OnCreate(stock, row))
        /\ lineItems' = [lineItems EXCEPT ![j] = Append(@, row)]
        /\ stock' = OnCreate(stock, row)
        /\ last' = [op |-> "line_create", code |-> 302, bad |-> FALSE, failed |-> 0]
        /\ trip' = [phase |-> "created", job |-> j, before |-> stock]
        /\ UNCHANGED <<jobCards, payments, nextJobId, proc, issued>>

\* save() of an existing line item with a new quantity, then
\* post_save(created=False)
LineItemSave(j, i, quantity) ==
    /\ Exists(j)
    /\ i \in 1..Len(lineItems[j])
    /\ LET row == LineItemRow([lineItems[j][i] EXCEPT !.quantity = quantity])
           persisted == row
       IN  /\ StockCapped(OnUpdate(stock, persisted, row))
           /\ lineItems' = [lineItems EXCEPT ![j][i] = row]
           /\ stock' = OnUpdate(stock, persisted, row)
    /\ last' = [op |-> "line_save", code |-> 302, bad |-> FALSE, failed |-> 0]
    /\ trip' = Idle
    /\ UNCHANGED <<jobCards, payments, nextJobId, proc, issued>>

\* delete() of one line item, then post_delete
LineItemDelete(j, i) ==
    /\ Exists(j)
    /\ i \in 1..Len(lineItems[j])
    /\ StockCapped(OnDelete(stock, lineItems[j][i]))
    /\ lineItems' = [lineItems EXCEPT ![j] = RemoveAt(@, i)]
    /\ stock' = OnDelete(stock, lineItems[j][i])
    /\ last' = [op |-> "line_delete", code |-> 302, bad |-> FALSE, failed |-> 0]
    /\ trip' = IF trip.phase = "created" /\ trip.job = j /\ i = Len(lineItems[j])
               THEN [trip EXCEPT !.phase = "restored"]
               ELSE Idle
    /\ UNCHANGED <<jobCards, payments, nextJobId, proc, issued>>

\* A job card without line items exists (created by POST with no items).
InitLineItems ==
    /\ jobCards = [j \in JobIds |->
                     IF j = 1 THEN JobCardSave(NewJobCard0, 0) ELSE NoRow]
    /\ lineItems = [j \in JobIds |-> <<>>]
    /\ payments = [j \in JobIds |-> <<>>]
    /\ stock \in [PartSkus -> 0..MaxStock]
    /\ nextJobId = 2
    /\ last = [op |-> "create", code |-> 201, bad |-> FALSE, failed |-> 0]
    /\ trip = Idle
    /\ proc = NoProc
    /\ issued = {1}

NextLineItems ==
    \/ \E j \in JobIds, item \in InlineItems : LineItemCreate(j, item)
    \/ \E j \in JobIds, i \in 1..MaxLineItems, q \in InlineQuantities :
          LineItemSave(j, i, q)
    \/ \E j \in JobIds, i \in 1..MaxLineItems : LineItemDelete(j, i)

SpecLineItems == InitLineItems /\ [][NextLineItems]_vars

--------------------------------------------------------------------------
(* Job-card requests of which some carry a line item that cannot be      *)
(* written: 10000.00 units at 10000.00 make a line_total of 11 digits.   *)

BigItem ==
    [item_type |-> "LABOR", sku |-> NoSku, quantity |-> 1000000,
     unit_price |-> 1000000]

AtomicItems ==
    [item_type : {"PART"}, sku : {"OIL123"}, quantity : {100}, unit_price : {10}]
    \cup [item_type : {"LABOR"}, sku : {NoSku}, quantity : {50}, unit_price : {5}]
    \cup {BigItem}

AtomicLists == SeqsUpTo(AtomicItems, MaxLineItems)

NextAtomic ==
    \/ \E items \in AtomicLists : CreateJobCard(items)
    \/ \E j \in JobIds, items \in AtomicLists : UpdateJobCard(j, items)
    \/ \E j \in JobIds : DeleteJobCard(j)

SpecAtomic == Init /\ [][NextAtomic]_vars

--------------------------------------------------------------------------
(* The workflow of a job card: status updates, replacement of its line   *)
(* items, payments.                                                      *)

\* The statuses a client may send: the enumerated ones, none, and one of
\* the Kanban board's that is not enumerated
StatusInputs == STATUS_CHOICES \cup {"", "IN_PROGRESS"}

\* One unit of the part at 0.10
OnePart ==
    [item_type |-> "PART", sku |-> "OIL123", quantity |-> 100, unit_price |-> 10]

WorkflowLists == {<<>>, <<OnePart>>}

WorkflowAmounts == {10}

\* Job card 1 was created with one PART line out of a full stock
InitWorkflow ==
    LET rows == <<LineItemRow(OnePart)>>
    IN  /\ jobCards = [j \in JobIds |->
                          IF j = 1
                          THEN recalculate_totals(JobCardSave(NewJobCard0, 0),
                                                  rows, <<>>)
                          ELSE NoRow]
        /\ lineItems = [j \in JobIds |-> IF j = 1 THEN rows ELSE <<>>]
        /\ payments = [j \in JobIds |-> <<>>]
        /\ stock = [s \in PartSkus |-> MaxStock - 1]
        /\ nextJobId = 2
        /\ last = [op |-> "create", code |-> 201, bad |-> FALSE, failed |-> 0]
        /\ trip = Idle
        /\ proc = NoProc
        /\ issued = {1}

NextWorkflow ==
    \/ \E j \in JobIds, items \in WorkflowLists : UpdateJobCard(j, items)
    \/ \E j \in JobIds, amount \in WorkflowAmounts : RecordPayment(j, amount)
    \/ \E j \in JobIds, new_status \in StatusInputs : UpdateStatus(j, new_status)

SpecWorkflow == InitWorkflow /\ [][NextWorkflow]_vars

--------------------------------------------------------------------------
(* The numbering of job cards: creations and deletions, and the other    *)
(* requests on the job cards created.                                    *)

NumberingStatuses == {"PAID", ""}

InitNumbering ==
    /\ jobCards = [j \in JobIds |-> NoRow]
    /\ lineItems = [j \in JobIds |-> <<>>]
    /\ payments = [j \in JobIds |-> <<>>]
    /\ stock = [s \in PartSkus |-> MaxStock]
    /\ nextJobId = 1
    /\ last = [op |-> "none", code |-> 0, bad |-> FALSE, failed |-> 0]
    /\ trip = Idle
    /\ proc = NoProc
    /\ issued = {}

NextNumbering ==
    \/ \E items \in WorkflowLists : CreateJobCard(items)
    \/ \E j \in JobIds, items \in WorkflowLists : UpdateJobCard(j, items)
    \/ \E j \in JobIds : DeleteJobCard(j)
    \/ \E j \in JobIds, amount \in WorkflowAmounts : RecordPayment(j, amount)
    \/ \E j \in JobIds, new_status \in NumberingStatuses :
          UpdateStatus(j, new_status)

SpecNumbering == InitNumbering /\ [][NextNumbering]_vars

--------------------------------------------------------------------------
(* Recomputation of a job card's totals on its own, after line items were *)
(* edited one by one (which leaves the stored totals stale) and payments  *)
(* recorded.                                                              *)

\* job_card.recalculate_totals(); job_card.save()
Recalculate(j) ==
    /\ Exists(j)
    /\ jobCards' = [jobCards EXCEPT
           ![j] = JobCardSave(
                     recalculate_totals(jobCards[j], lineItems[j], payments[j]),
                     LastJobId)]
    /\ last' = [op |-> "recalculate", code |-> 0, bad |-> FALSE, failed |-> 0]
    /\ trip' = IF trip.phase \in {"once", "twice"} /\ trip.job = j
               THEN [trip EXCEPT !.phase = "twice"]
               ELSE [phase |-> "once", job |-> j, before |-> jobCards'[j]]
    /\ UNCHANGED <<lineItems, payments, stock, nextJobId, proc, issued>>

RecomputeItems ==
    [item_type : {"PART"}, sku : {"OIL123"}, quantity : {100}, unit_price : {10}]
    \cup [item_type : {"LABOR"}, sku : {NoSku}, quantity : {50}, unit_price : {5}]

NextRecompute ==
    \/ \E j \in JobIds, item \in RecomputeItems : LineItemCreate(j, item)
    \/ \E j \in JobIds, i \in 1..MaxLineItems : LineItemDelete(j, i)
    \/ \E j \in JobIds, amount \in WorkflowAmounts : RecordPayment(j, amount)
    \/ \E j \in JobIds : Recalculate(j)

SpecRecompute == InitLineItems /\ [][NextRecompute]_vars

--------------------------------------------------------------------------
(* Replacement of a job card's line items, fractional quantities among   *)
(* them.                                                                 *)

ReplaceItems ==
    [item_type : {"PART"}, sku : {"OIL123"}, quantity : {100, 150},
     unit_price : {10}]
    \cup [item_type : {"LABOR"}, sku : {NoSku}, quantity : {50}, unit_price : {5}]

ReplaceLists == SeqsUpTo(ReplaceItems, MaxLineItems)

NextReplace ==
    \/ \E items \in ReplaceLists : CreateJobCard(items)
    \/ \E j \in JobIds, items \in ReplaceLists : UpdateJobCard(j, items)

SpecReplace == Init /\ [][NextReplace]_vars

--------------------------------------------------------------------------
(* Concurrent job-card creations. JobCard.save() reads the last job card *)
(* and inserts the new row in two statements; another request's          *)
(* statements may run between them. The requests carry no line items.    *)

Requests == {"a", "b"}

\* Variant of UniqueJobNumber for a column without unique=True
NotUnique(table, job_number) == TRUE

\* job_number is unique=True: the INSERT of a row whose job_number another
\* row has raises IntegrityError
UniqueJobNumber(table, job_number) ==
    \A j \in DOMAIN table : table[j].exists => table[j].job_number # job_number

\* JobCard.save(), first statement: last_job = JobCard.objects.all()
\* .order_by('-id').first()
CreateRead(p) ==
    /\ proc[p].pc = "idle"
    /\ nextJobId <= MaxJobCards
    /\ proc' = [proc EXCEPT ![p] = [pc |-> "insert", last_id |-> LastJobId,
                                    result |-> ""]]
    /\ UNCHANGED <<db, last, trip, issued>>

\* Variant of CreateInsert that, on a conflict, reads the last job card
\* again and inserts with the next number
CreateInsertRetry(p) ==
    /\ proc[p].pc = "insert"
    /\ LET j == nextJobId
           first == JobCardSave(NewJobCard0, proc[p].last_id)
           inserted == IF UniqueJobNumber(jobCards, first.job_number)
                       THEN first ELSE JobCardSave(NewJobCard0, LastJobId)
           card == recalculate_totals(inserted, <<>>, <<>>)
       IN  /\ jobCards' = [jobCards EXCEPT ![j] = card]
           /\ nextJobId' = nextJobId + 1
           /\ issued' = issued \cup {DigitsValue(card.job_number.digits)}
           /\ proc' = [proc EXCEPT
                  ![p] = [pc |-> "idle", last_id |-> proc[p].last_id,
                          result |-> "created"]]
           /\ last' = [op |-> "create", code |-> 201, bad |-> FALSE, failed |-> 0]
    /\ trip' = Idle
    /\ UNCHANGED <<lineItems, payments, stock>>

\* JobCard.save(), second statement: super().save() inserts the row; then
\* create() recomputes the totals, saves and commits. IntegrityError is
\* not caught: the transaction is rolled back and the request ends.
CreateInsert(p) ==
    /\ proc[p].pc = "insert"
    /\ LET j == nextJobId
           inserted == JobCardSave(NewJobCard0, proc[p].last_id)
           card == recalculate_totals(inserted, <<>>, <<>>)
           raised == ~UniqueJobNumber(jobCards, inserted.job_number)
       IN  /\ jobCards' = transaction_atomic(
                  jobCards, [jobCards EXCEPT ![j] = card], raised)
           /\ nextJobId' = transaction_atomic(nextJobId, nextJobId + 1, raised)
           /\ issued' = IF raised THEN issued
                        ELSE issued \cup {DigitsValue(card.job_number.digits)}
           /\ proc' = [proc EXCEPT
                  ![p] = [pc |-> "idle", last_id |-> proc[p].last_id,
                          result |-> IF raised THEN "IntegrityError" ELSE "created"]]
           /\ last' = [op |-> "create", code |-> IF raised THEN 500 ELSE 201,
                       bad |-> FALSE, failed |-> 0]
    /\ trip' = Idle
    /\ UNCHANGED <<lineItems, payments, stock>>

InitConcurrentCreate ==
    /\ jobCards = [j \in JobIds |-> NoRow]
    /\ lineItems = [j \in JobIds |-> <<>>]
    /\ payments = [j \in JobIds |-> <<>>]
    /\ stock \in [PartSkus -> 0..MaxStock]
    /\ nextJobId = 1
    /\ last = [op |-> "none", code |-> 0, bad |-> FALSE, failed |-> 0]
    /\ trip = Idle
    /\ proc = [p \in Requests |-> [pc |-> "idle", last_id |-> 0, result |-> ""]]
    /\ issued = {}

NextConcurrentCreate ==
    \/ \E p \in Requests : CreateRead(p)
    \/ \E p \in Requests : CreateInsert(p)
    \/ \E j \in JobIds : DeleteJobCard(j)

SpecConcurrentCreate == InitConcurrentCreate /\ [][NextConcurrentCreate]_vars

--------------------------------------------------------------------------
(* A payment recording, a status update and a replacement of the line    *)
(* items running concurrently on one job card. The payment and the       *)
(* status update run in autocommit mode, each statement on its own; the  *)
(* replacement reads the job card, then runs its transaction.            *)

Mutations == {"payment", "status", "replace"}

NotStarted == [pc |-> "idle", job |-> 0, card |-> NoRow, input |-> <<>>]

\* PaymentViewSet.create(): job_card = JobCard.objects.get(pk=job_card_id)
PayRead(j, amount) ==
    /\ proc["payment"].pc = "idle"
    /\ Exists(j)
    /\ TotalPayments < MaxPayments
    /\ proc' = [proc EXCEPT !["payment"] =
                   [pc |-> "read", job |-> j, card |-> jobCards[j],
                    input |-> amount]]
    /\ UNCHANGED <<db, last, trip, issued>>

\* Payment.save(): super().save() inserts the payment
PayInsert ==
    /\ proc["payment"].pc = "read"
    /\ payments' = [payments EXCEPT ![proc["payment"].job] =
                       Append(@, [amount |-> proc["payment"].input])]
    /\ proc' = [proc EXCEPT !["payment"].pc = "inserted"]
    /\ UNCHANGED <<jobCards, lineItems, stock, nextJobId, last, trip, issued>>

\* Payment.save(): self.job_card.total_paid = the sum of the payments, set
\* on the job card the view read
PayAggregate ==
    /\ proc["payment"].pc = "inserted"
    /\ proc' = [proc EXCEPT !["payment"] =
                   [@ EXCEPT !.pc = "summed",
                             !.card = PaymentSave(@, payments[proc["payment"].job])]]
    /\ UNCHANGED <<db, last, trip, issued>>

\* Payment.save(): self.job_card.save() writes every field of the job
\* card the view read
PaySave ==
    /\ proc["payment"].pc = "summed"
    /\ jobCards' = [jobCards EXCEPT ![proc["payment"].job] =
                       JobCardSave(proc["payment"].card, LastJobId)]
    /\ proc' = [proc EXCEPT !["payment"].pc = "done"]
    /\ last' = [op |-> "payment", code |-> 201, bad |-> FALSE, failed |-> 0]
    /\ UNCHANGED <<lineItems, payments, stock, nextJobId, trip, issued>>

\* update_status(): job_card = self.get_object()
StatusRead(j, new_status) ==
    /\ proc["status"].pc = "idle"
    /\ Exists(j)
    /\ new_status # "" /\ new_status \in STATUS_CHOICES
    /\ proc' = [proc EXCEPT !["status"] =
                   [pc |-> "read", job |-> j, card |-> jobCards[j],
                    input |-> new_status]]
    /\ UNCHANGED <<db, last, trip, issued>>

\* update_status(): job_card.status = new_status; job_card.save() writes
\* every field of the job card read
StatusSave ==
    /\ proc["status"].pc = "read"
    /\ jobCards' = [jobCards EXCEPT ![proc["status"].job] =
                       JobCardSave([proc["status"].card EXCEPT
                                       !.status = proc["status"].input],
                                   LastJobId)]
    /\ proc' = [proc EXCEPT !["status"].pc = "done"]
    /\ last' = [op |-> "status", code |-> 200, bad |-> FALSE, failed |-> 0]
    /\ UNCHANGED <<lineItems, payments, stock, nextJobId, trip, issued>>

\* PUT: instance = self.get_object(), the line items validated
ReplaceRead(j, items) ==
    /\ proc["replace"].pc = "idle"
    /\ Exists(j)
    /\ ValidateAll(items)
    /\ proc' = [proc EXCEPT !["replace"] =
                   [pc |-> "read", job |-> j, card |-> jobCards[j],
                    input |-> items]]
    /\ UNCHANGED <<db, last, trip, issued>>

\* JobCardSerializer.update(): the transaction, on the instance read
ReplaceCommit ==
    /\ proc["replace"].pc = "read"
    /\ LET j == proc["replace"].job
           items == proc["replace"].input
           k == FailsAt(items)
           n == IF k = 0 THEN Len(items) ELSE k - 1
           rows == [i \in 1..n |-> LineItemRow(items[i])]
           instance == JobCardSave(proc["replace"].card, LastJobId)
           card == IF k = 0 THEN recalculate_totals(instance, rows, payments[j])
                            ELSE instance
           st == CreateAll(DeleteAll(stock, lineItems[j]), rows)
       IN  /\ TotalLineItems - Len(lineItems[j]) + Len(rows) <= MaxLineItems
           /\ StockCapped(st)
           /\ jobCards' = transaction_atomic(
                  jobCards, [jobCards EXCEPT ![j] = card], k # 0)
           /\ lineItems' = transaction_atomic(
                  lineItems, [lineItems EXCEPT ![j] = rows], k # 0)
           /\ stock' = transaction_atomic(stock, st, k # 0)
           /\ last' = [op |-> "update", code |-> IF k = 0 THEN 200 ELSE 500,
                       bad |-> HasBadPrice(items), failed |-> k]
    /\ proc' = [proc EXCEPT !["replace"].pc = "done"]
    /\ UNCHANGED <<payments, nextJobId, trip, issued>>

\* Job card 1 was created with one PART line out of a full stock
InitInterleaved ==
    /\ jobCards = [j \in JobIds |->
                      IF j = 1
                      THEN recalculate_totals(
                              JobCardSave(NewJobCard0, 0),
                              <<LineItemRow(OnePart)>>, <<>>)
                      ELSE NoRow]
    /\ lineItems = [j \in JobIds |->
                       IF j = 1 THEN <<LineItemRow(OnePart)>> ELSE <<>>]
    /\ payments = [j \in JobIds |-> <<>>]
    /\ stock = [s \in PartSkus |-> MaxStock - 1]
    /\ nextJobId = 2
    /\ last = [op |-> "create", code |-> 201, bad |-> FALSE, failed |-> 0]
    /\ trip = Idle
    /\ proc = [p \in Mutations |-> NotStarted]
    /\ issued = {1}

NextInterleaved ==
    \/ \E j \in JobIds, amount \in WorkflowAmounts : PayRead(j, amount)
    \/ PayInsert
    \/ PayAggregate
    \/ PaySave
    \/ \E j \in JobIds, new_status \in STATUS_CHOICES : StatusRead(j, new_status)
    \/ StatusSave
    \/ \E j \in JobIds, items \in WorkflowLists : ReplaceRead(j, items)
    \/ ReplaceCommit

SpecInterleaved == InitInterleaved /\ [][NextInterleaved]_vars

--------------------------------------------------------------------------
(* Requests whose payload is a record of optional keys: status,         *)
(* line_items; a line item may carry a line_total of the client's.      *)

\* validated_data.pop('line_items', [])
PoppedLineItems(data) ==
    IF "line_items" \in DOMAIN data THEN data.line_items ELSE <<>>

\* The ChoiceField of status (choices=STATUS_CHOICES) and the nested
\* LineItemSerializer.validate()
IsValid(data) ==
    /\ "status" \in DOMAIN data => data.status \in STATUS_CHOICES
    /\ ValidateAll(PoppedLineItems(data))

\* The job card with the validated fields set on it
WithFields(card, data) ==
    IF "status" \in DOMAIN data THEN [card EXCEPT !.status = data.status]
    ELSE card

\* POST /api/jobcards/ with payload data
PostJobCard(data) ==
    /\ nextJobId <= MaxJobCards
    /\ UNCHANGED proc
    /\ IF ~IsValid(data)
       THEN /\ last' = [op |-> "create", code |-> 400, bad |-> FALSE, failed |-> 0]
            /\ trip' = Idle
            /\ UNCHANGED <<db, issued>>
       ELSE LET j == nextJobId
                items == PoppedLineItems(data)
                rows == [i \in 1..Len(items) |-> LineItemRow(items[i])]
                job_card == JobCardSave(WithFields(NewJobCard0, data), LastJobId)
                st == CreateAll(stock, rows)
            IN  /\ FailsAt(items) = 0   \* no payload here exceeds max_digits
                /\ TotalLineItems + Len(rows) <= MaxLineItems
                /\ StockCapped(st)
                /\ jobCards' = [jobCards EXCEPT
                       ![j] = recalculate_totals(job_card, rows, <<>>)]
                /\ lineItems' = [lineItems EXCEPT ![j] = rows]
                /\ stock' = st
                /\ nextJobId' = nextJobId + 1
                /\ UNCHANGED payments
                /\ issued' = issued \cup {DigitsValue(job_card.job_number.digits)}
                /\ last' = [op |-> "create", code |-> 201, bad |-> FALSE, failed |-> 0]
                /\ trip' = [phase |-> IF "status" \in DOMAIN data
                                      THEN "status_given" ELSE "no_status",
                            job |-> j, before |-> Idle.before]

\* PUT or PATCH /api/jobcards/{pk}/ with payload data
PatchJobCard(j, data) ==
    /\ Exists(j)
    /\ UNCHANGED <<proc, issued>>
    /\ IF ~IsValid(data)
       THEN /\ last' = [op |-> "update", code |-> 400, bad |-> FALSE, failed |-> 0]
            /\ trip' = Idle
            /\ UNCHANGED db
       ELSE LET line_items_data == PoppedLineItems(data)
                rows == [i \in 1..Len(line_items_data) |->
                            LineItemRow(line_items_data[i])]
                instance == JobCardSave(WithFields(jobCards[j], data), LastJobId)
                st == CreateAll(DeleteAll(stock, lineItems[j]), rows)
            IN  /\ FailsAt(line_items_data) = 0   \* as in PostJobCard
                /\ TotalLineItems - Len(lineItems[j]) + Len(rows) <= MaxLineItems
                /\ StockCapped(st)
                /\ jobCards' = [jobCards EXCEPT
                       ![j] = recalculate_totals(instance, rows, payments[j])]
                /\ lineItems' = [lineItems EXCEPT ![j] = rows]
                /\ stock' = st
                /\ UNCHANGED <<payments, nextJobId>>
                /\ last' = [op |-> "update", code |-> 200, bad |-> FALSE, failed |-> 0]
                /\ trip' = [phase |-> IF "line_items" \in DOMAIN data
                                      THEN "line_items_given" ELSE "no_line_items",
                            job |-> j, before |-> Idle.before]

\* A PART line that carries a line_total of the client's
TotalledPart ==
    [item_type |-> "PART", sku |-> "OIL123", quantity |-> 100,
     unit_price |-> 10, line_total |-> 999]

\* A PART line with a fractional quantity (1.50 at 0.05)
FractionalPart ==
    [item_type |-> "PART", sku |-> "OIL123", quantity |-> 150, unit_price |-> 5]

LaborLine ==
    [item_type |-> "LABOR", sku |-> NoSku, quantity |-> 50, unit_price |-> 5]

PayloadLists ==
    {<<>>, <<TotalledPart>>, <<FractionalPart>>, <<FractionalPart, LaborLine>>}

PayloadStatuses == {"OPEN", "IN_PROGRESS"}

\* Payloads with and without the keys status and line_items
Payloads ==
    {[line_items |-> L] : L \in PayloadLists}
    \cup {[status |-> x] : x \in PayloadStatuses}
    \cup {[date_promised |-> "2026-01-01"]}
    \cup {[status |-> "OPEN", line_items |-> <<TotalledPart>>]}

\* update-status requests: a status, no status, one outside STATUS_CHOICES
PayloadStatusInputs == {"OPEN", "", "IN_PROGRESS"}

NextPayload ==
    \/ \E data \in Payloads : PostJobCard(data)
    \/ \E j \in JobIds, data \in Payloads : PatchJobCard(j, data)
    \/ \E j \in JobIds, amount \in WorkflowAmounts : RecordPayment(j, amount)
    \/ \E j \in JobIds, new_status \in PayloadStatusInputs :
          UpdateStatus(j, new_status)

SpecPayload == InitNumbering /\ [][NextPayload]_vars

--------------------------------------------------------------------------
(* Two parts in the inventory; line items of every type, with and       *)
(* without a sku, created and deleted one by one and with their job     *)
(* card.                                                                *)

TwoPartSkus == {"OIL123", "FILTER9"}

PartsItems ==
    [item_type : {"PART"}, sku : {"OIL123", "FILTER9", NoSku}, quantity : {100},
     unit_price : {10}]
    \cup { [item_type |-> "LABOR", sku |-> "OIL123", quantity |-> 100,
            unit_price |-> 10],
           [item_type |-> "FEE", sku |-> "FILTER9", quantity |-> 100,
            unit_price |-> 10] }

\* Job card 1 exists, without line items
InitParts ==
    /\ jobCards = [j \in JobIds |->
                     IF j = 1 THEN JobCardSave(NewJobCard0, 0) ELSE NoRow]
    /\ lineItems = [j \in JobIds |-> <<>>]
    /\ payments = [j \in JobIds |-> <<>>]
    /\ stock \in [TwoPartSkus -> {0, MaxStock}]
    /\ nextJobId = 2
    /\ last = [op |-> "create", code |-> 201, bad |-> FALSE, failed |-> 0]
    /\ trip = Idle
    /\ proc = NoProc
    /\ issued = {1}

NextParts ==
    \/ \E j \in JobIds, item \in PartsItems : LineItemCreate(j, item)
    \/ \E j \in JobIds, i \in 1..MaxLineItems : LineItemDelete(j, i)

SpecParts == InitParts /\ [][NextParts]_vars

\* Job cards with lines on both parts, paid and deleted
CascadeItems ==
    { [item_type |-> "PART", sku |-> "OIL123", quantity |-> 150,
       unit_price |-> 10],
      [item_type |-> "PART", sku |-> "FILTER9", quantity |-> 100,
       unit_price |-> 10],
      [item_type |-> "LABOR", sku |-> NoSku, quantity |-> 50,
       unit_price |-> 5] }

CascadeLists == SeqsUpTo(CascadeItems, MaxLineItems)

NextCascade ==
    \/ \E items \in CascadeLists : CreateJobCard(items)
    \/ \E j \in JobIds : DeleteJobCard(j)
    \/ \E j \in JobIds, amount \in WorkflowAmounts : RecordPayment(j, amount)

SpecCascade == InitParts /\ [][NextCascade]_vars

--------------------------------------------------------------------------
(* Kanban board: GET /api/jobcards/kanban/ *)

KANBAN_STATUSES == <<"OPEN", "IN_PROGRESS", "READY_FOR_PICKUP">>

\* JobCardKanbanView.get(): the job cards whose status is one of
\* KANBAN_STATUSES, grouped by status (each column as the set of the ids
\* of its cards)
JobCardKanbanView ==
    LET keys == {KANBAN_STATUSES[i] : i \in 1..Len(KANBAN_STATUSES)}
        job_cards == {j \in JobIds : Exists(j) /\ jobCards[j].status \in keys}
    IN  [statuses |-> KANBAN_STATUSES,
         columns |-> [status \in keys |->
                        {j \in job_cards : jobCards[j].status = status}]]

--------------------------------------------------------------------------
(* Consumption of one part by all job cards, from a full stock: the     *)
(* quantities are small enough for MaxLineItems lines never to ask for  *)
(* more than MaxStock.                                                  *)

ConsumptionItems ==
    [item_type : {"PART"}, sku : {"OIL123"}, quantity : {50, 100},
     unit_price : {10}]
    \cup [item_type : {"LABOR"}, sku : {NoSku}, quantity : {50}, unit_price : {5}]

ConsumptionLists == SeqsUpTo(ConsumptionItems, MaxLineItems)

\* if part.stock_qty < 0 : some creation of rows, in order from st, is
\* clamped
RECURSIVE Clamps(_, _)
Clamps(st, rows) ==
    IF rows = <<>> THEN FALSE
    ELSE \/ \E s \in DOMAIN st :
              Touches(Head(rows), s) /\ st[s] * 100 - Head(rows).quantity < 0
         \/ Clamps(OnCreate(st, Head(rows)), Tail(rows))

NextConsumption ==
    \/ \E items \in ConsumptionLists : CreateJobCard(items)
    \/ \E j \in JobIds, items \in ConsumptionLists : UpdateJobCard(j, items)
    \/ \E j \in JobIds : DeleteJobCard(j)

SpecConsumption == InitNumbering /\ [][NextConsumption]_vars

--------------------------------------------------------------------------
(* Every operation of the API that can reach a payment: the payments    *)
(* route offers only POST; job cards are created, updated, moved and    *)
(* deleted beside it.                                                   *)

NextPayments ==
    \/ \E items \in WorkflowLists : CreateJobCard(items)
    \/ \E j \in JobIds, items \in WorkflowLists : UpdateJobCard(j, items)
    \/ \E j \in JobIds : DeleteJobCard(j)
    \/ \E j \in JobIds, amount \in PaymentAmounts : RecordPayment(j, amount)
    \/ \E j \in JobIds, new_status \in NumberingStatuses :
          UpdateStatus(j, new_status)

SpecPayments == InitNumbering /\ [][NextPayments]_vars

--------------------------------------------------------------------------
(* Two requests that each add one line item to a job card, concurrently. *)
(* The post_save receiver reads the part and saves it in two statements; *)
(* the other request's statements may run between them.                  *)

StockItems ==
    [item_type : {"PART"}, sku : {"OIL123"}, quantity : {100, 200},
     unit_price : {10}]
    \cup [item_type : {"LABOR"}, sku : {NoSku}, quantity : {50}, unit_price : {5}]

\* LineItem.objects.create(): the row is inserted, then the receiver runs
\* part = InventoryPart.objects.get(sku=instance.sku)
LineInsert(p, j, item) ==
    /\ proc[p].pc = "idle"
    /\ Exists(j)
    /\ Validate(item)
    /\ TotalLineItems < MaxLineItems
    /\ lineItems' = [lineItems EXCEPT ![j] = Append(@, LineItemRow(item))]
    /\ proc' = [proc EXCEPT ![p] = [pc |-> "read", job |-> j, part |-> stock,
                                    row |-> LineItemRow(item)]]
    /\ UNCHANGED <<jobCards, payments, stock, nextJobId, last, trip, issued>>

\* The receiver sets part.stock_qty from the part it read and runs
\* part.save(); then the request recomputes its job card's totals.
PartSave(p) ==
    /\ proc[p].pc = "read"
    /\ stock' = [s \in DOMAIN stock |->
                    IF Touches(proc[p].row, s)
                    THEN OnCreate(proc[p].part, proc[p].row)[s]
                    ELSE stock[s]]
    /\ jobCards' = [jobCards EXCEPT ![proc[p].job] =
                       recalculate_totals(@, lineItems[proc[p].job],
                                          payments[proc[p].job])]
    /\ proc' = [proc EXCEPT ![p].pc = "done"]
    /\ last' = [op |-> "update", code |-> 200, bad |-> FALSE, failed |-> 0]
    /\ UNCHANGED <<lineItems, payments, nextJobId, trip, issued>>

\* Two job cards without line items exist
InitConcurrentStock ==
    /\ jobCards = [j \in JobIds |->
                      IF j <= 2 THEN JobCardSave(NewJobCard0, j - 1) ELSE NoRow]
    /\ lineItems = [j \in JobIds |-> <<>>]
    /\ payments = [j \in JobIds |-> <<>>]
    /\ stock \in [PartSkus -> 0..MaxStock]
    /\ nextJobId = 3
    /\ last = [op |-> "create", code |-> 201, bad |-> FALSE, failed |-> 0]
    /\ trip = [phase |-> "stock", job |-> 0, before |-> stock]
    /\ proc = [p \in Requests |->
                  [pc |-> "idle", job |-> 0, part |-> stock,
                   row |-> LineItemRow(OnePart)]]
    /\ issued = {1, 2}

NextConcurrentStock ==
    \/ \E p \in Requests, j \in JobIds, item \in StockItems : LineInsert(p, j, item)
    \/ \E p \in Requests : PartSave(p)

SpecConcurrentStock == InitConcurrentStock /\ [][NextConcurrentStock]_vars

--------------------------------------------------------------------------
(* Properties *)

Max0(n) == IF n < 0 THEN 0 ELSE n

\* x cents is n / 100 cents rounded to a nearest cent
NearestCent(x, n) == 2 * Abs(100 * x - n) <= 100

TypeTotal(rows, type) ==
    SumSeq([i \in 1..Len(rows) |->
              IF rows[i].item_type = type THEN rows[i].line_total ELSE 0])

HasType(rows, type) == \E i \in 1..Len(rows) : rows[i].item_type = type

\* C1: after any sequence of job-card creations, updates and payment
\* recordings, every job card's persisted parts_subtotal is the sum of
\* line_total over its PART line items and its labor_subtotal the sum of
\* line_total over its LABOR and FEE line items together (0 when none).
C1_SubtotalsMatchLineItems ==
    \A j \in JobIds : Exists(j) =>
        /\ jobCards[j].parts_subtotal = TypeTotal(lineItems[j], "PART")
        /\ jobCards[j].labor_subtotal =
              TypeTotal(lineItems[j], "LABOR") + TypeTotal(lineItems[j], "FEE")

\* A job card updated, after a payment, to one LABOR and one FEE line
C1_Witness ==
    /\ last.op = "update" /\ last.code = 200
    /\ \E j \in JobIds :
          /\ Exists(j)
          /\ Len(payments[j]) > 0
          /\ HasType(lineItems[j], "LABOR") /\ HasType(lineItems[j], "FEE")
          /\ jobCards[j].labor_subtotal = 4
          /\ jobCards[j].parts_subtotal = 0

\* C2: for every job card, total_due is (parts_subtotal + labor_subtotal)
\* * 1.15 rounded to 2 decimals, tax_amount is (parts_subtotal +
\* labor_subtotal) * 0.15 rounded to 2 decimals, and total_due =
\* parts_subtotal + labor_subtotal + tax_amount: the two roundings never
\* disagree by a cent.
C2_TaxAndTotalDue ==
    \A j \in JobIds : Exists(j) =>
        LET subtotal == jobCards[j].parts_subtotal + jobCards[j].labor_subtotal
        IN  /\ NearestCent(jobCards[j].total_due, subtotal * 115)
            /\ NearestCent(jobCards[j].tax_amount, subtotal * 15)
            /\ jobCards[j].total_due = subtotal + jobCards[j].tax_amount

\* A subtotal of 0.10: the tax 0.015 and the total 0.115 are both ties
C2_Witness ==
    \E j \in JobIds :
        /\ Exists(j)
        /\ jobCards[j].parts_subtotal + jobCards[j].labor_subtotal = 10
        /\ jobCards[j].tax_amount = 2
        /\ jobCards[j].total_due = 12

C4_NonPositivePaymentFails ==
    [][\A j \in JobIds, amount \in PaymentAmounts :
          (last'.op = "payment" /\ amount <= 0 /\ RecordPayment(j, amount))
          => (payments' = payments /\ jobCards' = jobCards /\ last'.code >= 400)]_vars

C6_StockNeverNegative == \A s \in DOMAIN stock : stock[s] >= 0

\* C7: creating a PART line item for a part's sku and then deleting that
\* line item leaves stock_qty equal to its value before the creation.
C7_CreateThenDeleteRestores ==
    trip.phase = "restored" => stock = trip.before

\* C8: creating a PART line item with quantity q whose sku is a part's
\* with stock s sets stock_qty to s - q when q <= s and to 0 when q > s.
C8_CreateDeducts ==
    [][\A j \in JobIds, item \in InlineItems :
          (/\ item.item_type = "PART"
           /\ item.sku \in DOMAIN stock
           /\ LineItemCreate(j, item))
          => stock'[item.sku] * 100 =
                IF item.quantity <= stock[item.sku] * 100
                THEN stock[item.sku] * 100 - item.quantity
                ELSE 0]_vars

\* C9: saving an existing PART line item whose sku is a part's with its
\* quantity changed from old_quantity to new_quantity changes stock_qty
\* by old_quantity - new_quantity, clamped at 0.
C9_UpdateAppliesDifference ==
    [][\A j \in JobIds, i \in 1..MaxLineItems, q \in InlineQuantities :
          (/\ i <= Len(lineItems[j])
           /\ lineItems[j][i].item_type = "PART"
           /\ lineItems[j][i].sku \in DOMAIN stock
           /\ LineItemSave(j, i, q))
          => stock'[lineItems[j][i].sku] * 100 =
                Max0(stock[lineItems[j][i].sku] * 100
                     + lineItems[j][i].quantity - q)]_vars

\* The part line items of rows all name a sku no InventoryPart has
OrphanParts(rows) ==
    /\ HasType(rows, "PART")
    /\ \A i \in 1..Len(rows) :
          rows[i].item_type = "PART" => rows[i].sku \notin PartSkus \cup {NoSku}

OrphanLists == {items \in SeqsUpTo(PartItems \cup ServiceItems, MaxLineItems) :
                   OrphanParts(items)}

\* C10: creating or deleting a PART line item whose sku matches no
\* InventoryPart succeeds: the line item is persisted (or removed), its
\* line_total is part of parts_subtotal, and no stock_qty changes.
C10_UnknownSkuIsNoOp ==
    [][/\ last'.op = "create" =>
          \A items \in OrphanLists :
             CreateJobCard(items)
             => /\ last'.code = 201
                /\ Len(lineItems'[nextJobId]) = Len(items)
                /\ \A i \in 1..Len(items) :
                      /\ lineItems'[nextJobId][i].item_type = items[i].item_type
                      /\ lineItems'[nextJobId][i].sku = items[i].sku
                      /\ lineItems'[nextJobId][i].quantity = items[i].quantity
                /\ jobCards'[nextJobId].parts_subtotal =
                      TypeTotal(lineItems'[nextJobId], "PART")
                /\ \A i \in 1..Len(items) :
                      items[i].item_type = "PART" =>
                         lineItems'[nextJobId][i].line_total * 100 =
                            items[i].quantity * items[i].unit_price
                /\ stock' = stock
       /\ last'.op = "delete" =>
          \A j \in JobIds :
             (Exists(j) /\ OrphanParts(lineItems[j]) /\ DeleteJobCard(j))
             => /\ last'.code = 204
                /\ lineItems'[j] = <<>>
                /\ stock' = stock
       /\ last'.op = "update" =>
          \A j \in JobIds :
             (Exists(j) /\ OrphanParts(lineItems[j]) /\ UpdateJobCard(j, <<>>))
             => /\ last'.code = 200
                /\ lineItems'[j] = <<>>
                /\ jobCards'[j].parts_subtotal = 0
                /\ stock' = stock]_vars

\* A job card created with a PART line whose sku no part has
C10_Witness ==
    /\ last.op = "create" /\ last.code = 201
    /\ \E j \in JobIds :
          /\ Exists(j)
          /\ Len(lineItems[j]) = 1
          /\ lineItems[j][1].item_type = "PART"
          /\ lineItems[j][1].sku = "NOPART"
          /\ jobCards[j].parts_subtotal = 10
          /\ jobCards[j].total_due = 12

\* C11: a job-card create or update is all-or-nothing: when the write of
\* the k-th line item of the request fails, the job-card row, the line
\* items already deleted or inserted by the request, the totals and every
\* stock_qty adjustment made for them are back at their values before the
\* request.
C11_AllOrNothing ==
    [][(last'.op \in {"create", "update"} /\ last'.failed > 0)
          => (last'.code = 500 /\ UNCHANGED db)]_vars

\* An update failed at its second line item, after the job card's rows
\* had been deleted and a PART line inserted; the rows and the stock held
\* by the job card are still there
C11_Witness ==
    /\ last.op = "update" /\ last.failed = 2 /\ last.code = 500
    /\ \E j \in JobIds :
          /\ Exists(j)
          /\ Len(lineItems[j]) = 1
          /\ lineItems[j][1].item_type = "PART"
          /\ lineItems[j][1].sku = "OIL123"
          /\ jobCards[j].parts_subtotal = 10
    /\ stock["OIL123"] = 0

\* The id of the most recently created job card that exists, 0 when none
MaxExistingId ==
    LET ids == {j \in JobIds : Exists(j)}
    IN  IF ids = {} THEN 0 ELSE CHOOSE x \in ids : \A y \in ids : y <= x

\* C12: a job card's job_number is assigned on its first save as "J" and
\* (id of the most recently created existing job card + 1, or 1 when none
\* exists) zero-padded to 6 digits, and no later job-card update, status
\* update, payment recording or totals recomputation changes it.
C12_JobNumberAssignedOnce ==
    [][/\ (last'.op = "create" /\ last'.code = 201) =>
             /\ jobCards'[nextJobId].job_number.prefix = "J"
             /\ jobCards'[nextJobId].job_number.digits =
                   <<0, 0, 0, 0, 0, MaxExistingId + 1>>
       /\ \A j \in JobIds :
             (Exists(j) /\ jobCards'[j].exists)
             => jobCards'[j].job_number = jobCards[j].job_number]_vars

\* Two job cards numbered J000001 and J000002; the first has since been
\* paid, had its line items replaced and its status set
C12_Witness ==
    /\ last.op = "status" /\ last.code = 200
    /\ Exists(1) /\ Exists(2)
    /\ jobCards[1].job_number = [prefix |-> "J", digits |-> <<0, 0, 0, 0, 0, 1>>]
    /\ jobCards[2].job_number = [prefix |-> "J", digits |-> <<0, 0, 0, 0, 0, 2>>]
    /\ jobCards[1].status = "PAID"
    /\ Len(payments[1]) > 0
    /\ Len(lineItems[1]) > 0

\* C13: in every reachable state, under any sequence and any interleaving
\* of job-card creations and deletions, no two persisted job cards have
\* the same job_number.
C13_JobNumbersUnique ==
    \A j, k \in JobIds :
        (j # k /\ Exists(j) /\ Exists(k))
        => jobCards[j].job_number # jobCards[k].job_number

\* Two job cards are persisted after a creation that computed the number
\* of an existing job card was refused
C13_Witness ==
    /\ Exists(1) /\ Exists(2)
    /\ \E p \in Requests : proc[p].result = "IntegrityError"
    /\ jobCards[1].job_number # jobCards[2].job_number

\* C14: every newly created job card receives a job_number strictly
\* greater than the job_number of every job card created before it,
\* deleted ones included: a number is never issued twice.
C14_JobNumbersMonotonic ==
    [][(last'.op = "create" /\ last'.code = 201)
          => \A n \in issued :
                DigitsValue(jobCards'[nextJobId].job_number.digits) > n]_vars

C16_RecomputeIdempotent ==
    trip.phase = "twice" => jobCards[trip.job] = trip.before

\* A job card with stale totals recomputed twice: a PART line at 0.10 and
\* a LABOR line of 0.5 * 0.05, and a payment
C16_Witness ==
    /\ trip.phase = "twice"
    /\ last.op = "recalculate"
    /\ Len(lineItems[trip.job]) = 2
    /\ jobCards[trip.job].parts_subtotal = 10
    /\ jobCards[trip.job].labor_subtotal = 2
    /\ jobCards[trip.job].tax_amount = 2
    /\ jobCards[trip.job].total_due = 14
    /\ jobCards[trip.job].total_paid = 10

\* C17: the status update applies any of the seven enumerated statuses
\* from any current status, PAID and CANCELED included: it succeeds and
\* the job card's status becomes the new one.
C17_AnyStatusFromAnyStatus ==
    [][\A j \in JobIds, new_status \in STATUS_CHOICES :
          (last'.op = "status" /\ Exists(j) /\ UpdateStatus(j, new_status))
          => (last'.code = 200 /\ jobCards'[j].status = new_status)]_vars

\* A PAID job card was set back to DRAFT
C17_Witness ==
    /\ last.op = "status" /\ last.code = 200
    /\ trip.phase = "status"
    /\ trip.before = "PAID"
    /\ jobCards[trip.job].status = "DRAFT"

\* C18: recording a payment, even one that brings balance_due to 0 or
\* below, leaves the status, the line items, parts_subtotal,
\* labor_subtotal, tax_amount, total_due and every stock_qty unchanged;
\* only the job card's payments and total_paid change.
C18_PaymentChangesOnlyPayments ==
    [][\A j \in JobIds, amount \in WorkflowAmounts :
          (last'.op = "payment" /\ Exists(j) /\ RecordPayment(j, amount))
          => /\ payments' = [payments EXCEPT ![j] = Append(@, [amount |-> amount])]
             /\ jobCards' = [jobCards EXCEPT
                    ![j].total_paid = jobCards[j].total_paid + amount]
             /\ lineItems' = lineItems
             /\ stock' = stock
             /\ nextJobId' = nextJobId]_vars

\* The payment that overpaid an OPEN job card: it is still OPEN
C18_Witness ==
    /\ last.op = "payment" /\ last.code = 201
    /\ \E j \in JobIds :
          /\ Exists(j)
          /\ jobCards[j].status = "OPEN"
          /\ Len(lineItems[j]) = 1
          /\ jobCards[j].total_due = 12
          /\ jobCards[j].total_paid = 20
          /\ balance_due(jobCards[j]) < 0

\* The stock, in hundredths, after the quantity of each PART line of rows
\* was given back to its part
RECURSIVE Restored(_, _)
Restored(st, rows) ==
    IF rows = <<>> THEN st
    ELSE Restored([s \in DOMAIN st |->
                      IF Head(rows).item_type = "PART" /\ Head(rows).sku = s
                      THEN st[s] + Head(rows).quantity ELSE st[s]],
                  Tail(rows))

\* The stock, in hundredths, after the quantity of each PART line of rows
\* was taken from its part, down to 0 at most
RECURSIVE Deducted(_, _)
Deducted(st, rows) ==
    IF rows = <<>> THEN st
    ELSE Deducted([s \in DOMAIN st |->
                      IF Head(rows).item_type = "PART" /\ Head(rows).sku = s
                      THEN Max0(st[s] - Head(rows).quantity) ELSE st[s]],
                  Tail(rows))

\* C19: a job-card update with line-item list L replaces the line items:
\* afterwards the job card's line items are exactly the items of L, each
\* previous PART line's quantity has been restored to its part's stock and
\* each new PART line's quantity deducted, and the totals are those of L.
C19_UpdateReplacesLineItems ==
    [][last'.op = "update" =>
          \A j \in JobIds, L \in ReplaceLists :
             (Exists(j) /\ UpdateJobCard(j, L))
             => /\ last'.code = 200
                /\ Len(lineItems'[j]) = Len(L)
                /\ \A i \in 1..Len(L) :
                      /\ lineItems'[j][i].item_type = L[i].item_type
                      /\ lineItems'[j][i].sku = L[i].sku
                      /\ lineItems'[j][i].quantity = L[i].quantity
                      /\ lineItems'[j][i].unit_price = L[i].unit_price
                /\ [s \in DOMAIN stock |-> stock'[s] * 100] =
                      Deducted(Restored([s \in DOMAIN stock |-> stock[s] * 100],
                                        lineItems[j]),
                               lineItems'[j])
                /\ jobCards'[j].parts_subtotal = TypeTotal(lineItems'[j], "PART")
                /\ jobCards'[j].labor_subtotal = TypeTotal(lineItems'[j], "LABOR")
                /\ NearestCent(jobCards'[j].total_due,
                               115 * (jobCards'[j].parts_subtotal
                                      + jobCards'[j].labor_subtotal))]_vars

\* C20: each job-card mutation is atomic with respect to the others: under
\* any interleaving of a payment recording and a line-item replacement or
\* status update on one job card, once they have completed the persisted
\* parts_subtotal, labor_subtotal, tax_amount and total_due are those of
\* the current line items, total_paid is the sum of all payments and the
\* status is the last one set.
C20_MutationsAtomic ==
    (\A p \in Mutations : proc[p].pc \in {"idle", "done"})
    => \A j \in JobIds : Exists(j) =>
          LET subtotal == TypeTotal(lineItems[j], "PART")
                          + TypeTotal(lineItems[j], "LABOR")
                          + TypeTotal(lineItems[j], "FEE")
          IN  /\ jobCards[j].parts_subtotal = TypeTotal(lineItems[j], "PART")
              /\ jobCards[j].labor_subtotal =
                    TypeTotal(lineItems[j], "LABOR") + TypeTotal(lineItems[j], "FEE")
              /\ NearestCent(jobCards[j].tax_amount, 15 * subtotal)
              /\ NearestCent(jobCards[j].total_due, 115 * subtotal)
              /\ jobCards[j].total_paid =
                    SumSeq([i \in 1..Len(payments[j]) |-> payments[j][i].amount])
              /\ (proc["status"].pc = "done" /\ proc["status"].job = j)
                    => jobCards[j].status = proc["status"].input

\* C21: stock adjustments to one part are not lost under concurrency: when
\* two requests concurrently create PART line items with quantities q1
\* and q2 for one sku with starting stock s >= q1 + q2, the final
\* stock_qty is s - q1 - q2 in every interleaving of their read and write
\* of the part.
C21_NoLostStockUpdate ==
    (/\ \A p \in Requests : proc[p].pc = "done"
     /\ \A p \in Requests : Touches(proc[p].row, "OIL123")
     /\ trip.before["OIL123"] * 100
           >= proc["a"].row.quantity + proc["b"].row.quantity)
    => stock["OIL123"] * 100 =
          trip.before["OIL123"] * 100
          - proc["a"].row.quantity - proc["b"].row.quantity

\* C22: payments are append-only: no operation of the API edits or removes
\* one payment, so for every job card that still exists its payments only
\* grow and a recorded payment's amount never changes; a job-card update
\* and a status update leave the payments untouched.
C22_PaymentsAppendOnly ==
    [][\A j \in JobIds :
          (Exists(j) /\ jobCards'[j] # NoRow)
          => /\ Len(payments'[j]) >= Len(payments[j])
             /\ \A i \in 1..Len(payments[j]) : payments'[j][i] = payments[j][i]
             /\ last'.op \in {"update", "status"} => payments'[j] = payments[j]]_vars

C22_Witness ==
    \E j \in JobIds :
        /\ Exists(j)
        /\ Len(payments[j]) = 2
        /\ payments[j][1].amount # payments[j][2].amount
        /\ last.op \in {"update", "status"}
        /\ last.code = 200

\* C23: every persisted line item has line_total = quantity * unit_price
\* at 2 decimals (within half a cent of the product); a line_total in the
\* payload of a create or update has no effect on the stored value.
C23_LineTotalComputed ==
    \A j \in JobIds : \A i \in 1..Len(lineItems[j]) :
        LET row == lineItems[j][i]
        IN  /\ row.line_total = LineTotal(row.quantity, row.unit_price)
            /\ 2 * Abs(row.line_total * 100 - row.quantity * row.unit_price) <= 100

C23_Witness ==
    /\ last.op = "update" /\ last.code = 200
    /\ \E j \in JobIds : \E i \in 1..Len(lineItems[j]) :
          /\ lineItems[j][i].quantity = 100
          /\ lineItems[j][i].unit_price = 10
          /\ lineItems[j][i].line_total = 10
    /\ \E j \in JobIds : \E i \in 1..Len(lineItems[j]) :
          lineItems[j][i].quantity = 150 /\ lineItems[j][i].line_total = 8

\* The quantities (hundredths) of the existing PART lines of all job cards
\* whose sku is sku
Consumed(sku) ==
    SumSeq([j \in JobIds |->
              SumSeq([i \in 1..Len(lineItems[j]) |->
                        IF lineItems[j][i].item_type = "PART"
                           /\ lineItems[j][i].sku = sku
                        THEN lineItems[j][i].quantity ELSE 0])])

\* stock_qty = s0 - the quantities consumed, with s0 = MaxStock
Consistent(sku) == stock[sku] * 100 = MaxStock * 100 - Consumed(sku)

\* C24: stock stays consistent with consumption: from stock s0 of a part,
\* after any sequential series of job-card creations, line-item
\* replacements and job-card deletions in which no adjustment was clamped,
\* stock_qty = s0 - the sum of the quantities of all existing PART lines
\* with the part's sku. Stated on each step of the series: a creation,
\* replacement or deletion without a clamped adjustment keeps the equation.
C24_StockConsistentWithConsumption ==
    [][\A sku \in DOMAIN stock :
          (/\ Consistent(sku)
           /\ ~\E j \in JobIds :
                 Clamps(DeleteAll(stock, lineItems[j]), lineItems'[j]))
          => Consistent(sku)']_vars

\* C25: in every reachable state the status of every job card is one of
\* the seven values of STATUS_CHOICES, a job card created without a status
\* being DRAFT; a status update with no value or with a value outside the
\* enumeration is rejected with an error and leaves the job card's status
\* and all its other fields unchanged.
C25_StatusEnumerated ==
    [][/\ \A j \in JobIds :
            /\ Exists(j) => jobCards[j].status \in STATUS_CHOICES
            /\ jobCards'[j] # NoRow => jobCards'[j].status \in STATUS_CHOICES
       /\ (last'.op = "create" /\ last'.code = 201 /\ trip'.phase = "no_status")
          => jobCards'[trip'.job].status = "DRAFT"
       /\ last'.op = "status"
          => \A j \in JobIds, x \in PayloadStatusInputs \ STATUS_CHOICES :
                (Exists(j) /\ UpdateStatus(j, x))
                => /\ last'.code = 400
                   /\ jobCards' = jobCards
                   /\ lineItems' = lineItems
                   /\ payments' = payments
                   /\ stock' = stock]_vars

C25_Witness ==
    /\ last.op = "status" /\ last.code = 400
    /\ \E j \in JobIds : Exists(j) /\ jobCards[j].status = "OPEN"
    /\ \E j \in JobIds : Exists(j) /\ jobCards[j].status = "DRAFT"

\* C26: the Kanban view returns the active job cards grouped by status:
\* every job card whose status is not PAID or CLOSED appears in the column
\* of its current status, also after update-status moved it to another
\* active status.
C26_KanbanShowsActiveJobCards ==
    \A j \in JobIds :
        (Exists(j) /\ jobCards[j].status \notin {"PAID", "CLOSED"})
        => /\ jobCards[j].status \in DOMAIN JobCardKanbanView.columns
           /\ j \in JobCardKanbanView.columns[jobCards[j].status]

\* C27: a job-card update whose payload has no line_items key is a
\* replacement by the empty list: afterwards the job card has no line
\* items, the quantity of each former PART line has been added back to
\* its part's stock_qty, parts_subtotal, labor_subtotal, tax_amount and
\* total_due are 0, and total_paid is unchanged.
C27_UpdateWithoutLineItems ==
    [][(last'.op = "update" /\ last'.code = 200 /\ trip'.phase = "no_line_items")
       => LET j == trip'.job
          IN  /\ lineItems'[j] = <<>>
              /\ [s \in DOMAIN stock |-> stock'[s] * 100] =
                    Restored([s \in DOMAIN stock |-> stock[s] * 100], lineItems[j])
              /\ jobCards'[j].parts_subtotal = 0
              /\ jobCards'[j].labor_subtotal = 0
              /\ jobCards'[j].tax_amount = 0
              /\ jobCards'[j].total_due = 0
              /\ jobCards'[j].total_paid = jobCards[j].total_paid]_vars

\* C28: deleting a job card removes all its line items and payments, and
\* for each of its PART lines whose sku is an existing part's, that
\* part's stock_qty is increased by the line's quantity; the stock of
\* parts the job card did not reference and the other job cards are
\* unchanged.
C28_DeleteJobCardCascade ==
    [][last'.op = "delete" =>
          \A j \in JobIds :
             (Exists(j) /\ jobCards'[j] = NoRow)
             => /\ lineItems'[j] = <<>>
                /\ payments'[j] = <<>>
                /\ [s \in DOMAIN stock |-> stock'[s] * 100] =
                      Restored([s \in DOMAIN stock |-> stock[s] * 100],
                               lineItems[j])
                /\ \A k \in JobIds \ {j} :
                      /\ jobCards'[k] = jobCards[k]
                      /\ lineItems'[k] = lineItems[k]
                      /\ payments'[k] = payments[k]]_vars

\* The line-item list a client reads from job card j and sends back
CurrentItems(j) ==
    [i \in 1..Len(lineItems[j]) |->
        [item_type |-> lineItems[j][i].item_type, sku |-> lineItems[j][i].sku,
         quantity |-> lineItems[j][i].quantity,
         unit_price |-> lineItems[j][i].unit_price]]

\* C29: re-submitting an update whose line-item list is identical to the
\* job card's current line items leaves every part's stock_qty and all the
\* job card's totals unchanged, for every stock level and every accepted
\* combination of quantities and item order.
C29_ResubmitIsNeutral ==
    [][last'.op = "update" =>
          \A j \in JobIds :
             (Exists(j) /\ UpdateJobCard(j, CurrentItems(j)))
             => /\ stock' = stock
                /\ jobCards'[j] = jobCards[j]
                /\ lineItems'[j] = lineItems[j]]_vars

\* The line items created or deleted by the step
ChangedRows ==
    UNION {IF lineItems'[j] = lineItems[j] THEN {}
           ELSE IF /\ Len(lineItems'[j]) = Len(lineItems[j]) + 1
                   /\ SubSeq(lineItems'[j], 1, Len(lineItems[j])) = lineItems[j]
           THEN {lineItems'[j][Len(lineItems'[j])]}
           ELSE IF Len(lineItems'[j]) = Len(lineItems[j]) - 1
           THEN {lineItems[j][i] : i \in {k \in 1..Len(lineItems[j]) :
                                            RemoveAt(lineItems[j], k) = lineItems'[j]}}
           ELSE {lineItems[j][i] : i \in 1..Len(lineItems[j])}
                \cup {lineItems'[j][i] : i \in 1..Len(lineItems'[j])}
           : j \in JobIds}

\* C30: stock synchronization touches only the part whose sku equals the
\* line item's sku, and only for PART lines with a non-empty sku: creating
\* or deleting LABOR or FEE lines (even with a sku) or PART lines without
\* a sku never changes a stock_qty, and a PART line never changes the stock
\* of a part with another sku.
C30_StockSyncTouchesOnlyMatchingPart ==
    [][\A s \in DOMAIN stock :
          stock'[s] # stock[s]
          => \E row \in ChangedRows :
                row.item_type = "PART" /\ row.sku # NoSku /\ row.sku = s]_vars

C30_Witness ==
    /\ last.op = "line_create"
    /\ trip.phase = "created"
    /\ Len(lineItems[trip.job]) = 2
    /\ lineItems[trip.job][1].item_type = "PART"
    /\ lineItems[trip.job][1].sku = "FILTER9"
    /\ lineItems[trip.job][2].item_type = "LABOR"
    /\ lineItems[trip.job][2].sku = "OIL123"
    /\ trip.before = stock
    /\ stock["OIL123"] = MaxStock
    /\ stock["FILTER9"] = MaxStock - 1

==========================================================================
